---- MODULE Spec2Model ----
(***************************************************************************)
(* Wallet provider wrapper (useMetamask), contract registry accessor,      *)
(* marketplace accessor and the token / approval orchestrator              *)
(* (useNftTokens) of the web client, as one state machine.                 *)
(*                                                                         *)
(* Every `await` of the source is a point where another callback may run,  *)
(* so every action below is the synchronous code between two awaits.       *)
(* A falsy string ('' or undefined) is modelled as "" and a falsy / empty  *)
(* chain id ('' whose Number() is 0) as 0.                                 *)
(***************************************************************************)
EXTENDS Integers, Sequences, FiniteSets, TLC

\* ---------------------------------------------------------------- bounds
MaxAmount == 2        \* token amounts and allowances range over 0..MaxAmount
MaxApprovals == 3     \* approval requests counted per approveTokenSpend call
MaxIds == 2           \* token ids in a getUserTokens answer, over its contracts

\* ------------------------------------------------------------- constants
DEFAULT_CHAIN_ID == 1

Chains == {1, 2}
Accounts == {"A"}
Undef == "undefined"

\* The network list of the store: records {chain_id, factory_address}.
NetworkLists ==
  { {},
    {[chain_id |-> 1, factory_address |-> "R1"],
     [chain_id |-> 2, factory_address |-> "R2"]},
    {[chain_id |-> 1, factory_address |-> "R1"]},
    {[chain_id |-> 1, factory_address |-> ""],
     [chain_id |-> 2, factory_address |-> "R2"]} }

Registries == {"R1", "R2"}
\* What getMarketplaceContract() of the registry at an address answers.
MarketOf == [r \in Registries |-> IF r = "R1" THEN "M1" ELSE "M2"]
Markets == {"M1", "M2"}

VARIABLES
  \* the wallet and the chain (the environment)
  wChain, wAccount, hasDefaultProvider, allowance,
  \* what the wallet has answered to the query of a refresh, not yet delivered
  served,
  \* useMetamask: Provider State and the refreshes in flight; prevChain is
  \* history: the chain id Provider State held before its last change
  inited, chainId, selectedAddress, refresh, prevChain,
  \* stores and accessors
  netList, registryAddress, marketPlaceAddress, contractAddress,
  erc721Addr, erc20Addr,
  \* watch(chainId) and the runs of _initContractRegistry + _initMarketPlace
  ini,
  \* purchases and marketplace reads
  tx, lastRead,
  \* getNftList, getNft, approveTokenSpend and the calls each has issued
  list, nft, ap, calls,
  \* the wallet request, the marketplace read and the balance query in flight
  req, rd, bal

provVars == <<inited, chainId, selectedAddress, refresh, prevChain>>
envVars == <<wChain, wAccount, hasDefaultProvider, allowance, served>>
accVars == <<netList, registryAddress, marketPlaceAddress, contractAddress>>
opVars == <<tx, lastRead, list, nft, ap, calls, erc721Addr, erc20Addr>>
wrapVars == <<req, rd, bal>>
vars == <<wChain, wAccount, hasDefaultProvider, allowance, served, inited,
          chainId,
          selectedAddress, refresh, prevChain, netList, registryAddress,
          marketPlaceAddress, contractAddress, erc721Addr,
          erc20Addr, ini, tx, lastRead, list, nft, ap, calls, req, rd, bal>>

RefreshIds == {1, 2}
Watchers == {"w1", "w2"}
IniProcs == Watchers \cup {"list", "nft"}

\* isConnected = Boolean(selectedAddress.value && chainId.value)
\* A variant of the connection test that looks at the chain id only.
isConnectedChainOnly == chainId # 0

isConnected == selectedAddress # "" /\ chainId # 0

IdleIni == [pc |-> "idle", chain |-> 0, reg |-> ""]

\* A purchase: the request handed to signAndSendTx (kind, to, value) and,
\* as history, the amount argument of the mint (given), the purchase
\* operation it called, the chain id Provider State held when the request
\* was sent (chainAt), what the purchase operation returned (res) and the
\* errors it routed to the error handler (routed).
IdleTx == [pc |-> "idle", kind |-> "none", to |-> "", value |-> FALSE,
           given |-> FALSE, called |-> "none", chainAt |-> 0,
           res |-> "none", routed |-> 0]

\* A request to the wallet (connect, switchChain, addChain, addNetwork): as
\* history, how it ended for the caller (res), whether the wallet granted it
\* (ok) and the errors it routed to an error handler (routed).
IdleReq == [pc |-> "idle", kind |-> "none", chain |-> 0, res |-> "none",
            ok |-> FALSE, routed |-> 0]

\* A marketplace read: its name, whether the contract was called (issued),
\* what the read returned (res) and the errors it routed (routed).
IdleRd == [pc |-> "idle", kind |-> "none", issued |-> FALSE, res |-> "none",
           routed |-> 0]

\* getBalance(address): how it ended (res).
IdleBal == [pc |-> "idle", res |-> "none"]

\* handleEthError(error): the error is routed to the error handler and the
\* caller's catch block ends normally. `routed` counts the errors routed.
handleEthError(routed) == routed + 1

\* ------------------------------------------------- useMetamask (part_001)

\* The answer of the wallet to the query a refresh awaits: none yet, or the
\* chain (detectNetwork) or first account (listAccounts) the wallet held when
\* it answered.
NotServed == [has |-> FALSE, chain |-> 0, acct |-> ""]

\* The wallet answers the query of refresh i with its state of this moment;
\* the answer reaches the page when the awaiting refresh goes on.
WalletServes(i) ==
  /\ refresh[i] \in {"detect", "list"}
  /\ ~served[i].has
  /\ served' = [served EXCEPT ![i] =
                  IF refresh[i] = "detect"
                    THEN [has |-> TRUE, chain |-> wChain, acct |-> ""]
                    ELSE [has |-> TRUE, chain |-> 0, acct |-> wAccount]]
  /\ UNCHANGED <<wrapVars, provVars, wChain, wAccount, hasDefaultProvider,
                 allowance, accVars, ini, opVars>>

\* (await detectNetwork()).chainId and (await listAccounts())[0] as refresh i
\* receives them: the answer the wallet gave, which is its present state when
\* the answer is delivered as it is given.
NetworkAnswer(i) == IF served[i].has THEN served[i].chain ELSE wChain
AccountsAnswer(i) == IF served[i].has THEN served[i].acct ELSE wAccount

FreeRefresh == {i \in RefreshIds :
                  refresh[i] = "idle" /\
                  \A j \in RefreshIds : j < i => refresh[j] # "idle"}

\* _updateProviderState up to its first await: detectNetwork() is requested.
StartRefreshIn(r, i) == [r EXCEPT ![i] = "detect"]

\* init(): _setListeners() and the first _updateProviderState().
ProviderInit ==
  /\ ~inited
  /\ inited' = TRUE
  /\ \E i \in FreeRefresh : refresh' = StartRefreshIn(refresh, i)
  /\ UNCHANGED <<wrapVars, chainId, selectedAddress, prevChain, envVars, accVars,
                 ini, opVars>>

\* The wallet switches network and emits chainChanged: the listener starts a
\* refresh.
WalletChainChanged ==
  /\ inited
  /\ \E c \in Chains \ {wChain} : wChain' = c
  /\ \E i \in FreeRefresh : refresh' = StartRefreshIn(refresh, i)
  /\ UNCHANGED <<wrapVars, wAccount, hasDefaultProvider, allowance, served, inited, chainId,
                 selectedAddress, prevChain, accVars, ini,
                 opVars>>

\* The wallet changes its account list (connect, lock, another account) and
\* emits accountsChanged: the listener starts a refresh.
WalletAccountsChanged ==
  /\ inited
  /\ \E a \in (Accounts \cup {""}) \ {wAccount} : wAccount' = a
  /\ \E i \in FreeRefresh : refresh' = StartRefreshIn(refresh, i)
  /\ UNCHANGED <<wrapVars, wChain, hasDefaultProvider, allowance, served, inited, chainId,
                 selectedAddress, prevChain, accVars, ini,
                 opVars>>

\* The wallet emits disconnect: selectedAddress.value = ''.
WalletDisconnect ==
  /\ inited
  /\ selectedAddress # ""
  /\ selectedAddress' = ""
  /\ UNCHANGED <<wrapVars, chainId, inited, refresh, prevChain, envVars, accVars,
                 ini, opVars>>

\* ----------------------- useMetamask: the requests to the wallet, getBalance

\* ErrorHandler.process(error) in addNetwork: the error is reported and the
\* catch block ends normally.
ErrorHandlerProcess(routed) == routed + 1

\* The listener of a wallet event starts a refresh, when listeners are set
\* and the wallet state changed.
ListenerRuns(changed) ==
  IF changed /\ inited
    THEN \E i \in FreeRefresh : refresh' = StartRefreshIn(refresh, i)
    ELSE UNCHANGED refresh

\* The request is sent to the wallet and awaited.
RequestSent(kind, c) ==
  [IdleReq EXCEPT !.pc = "wait", !.kind = kind, !.chain = c,
                  !.res = "pending"]

\* connect(): on a mobile runtime outside the wallet's browser it redirects
\* and returns; else connectEthAccounts(currentProvider) is awaited.
Connect ==
  /\ req.pc = "idle"
  /\ \/ req' = [IdleReq EXCEPT !.kind = "connect", !.res = "redirected"]
     \/ req' = RequestSent("connect", 0)
  /\ UNCHANGED <<provVars, envVars, accVars, ini, opVars, rd, bal>>

\* switchChain(chainId): requestSwitchEthChain(currentProvider, chainId)
SwitchChain(c) ==
  /\ req.pc = "idle"
  /\ req' = RequestSent("switchChain", c)
  /\ UNCHANGED <<provVars, envVars, accVars, ini, opVars, rd, bal>>

\* addChain(chainId, ...): requestAddEthChain(currentProvider, chainId, ...)
AddChain(c) ==
  /\ req.pc = "idle"
  /\ req' = RequestSent("addChain", c)
  /\ UNCHANGED <<provVars, envVars, accVars, ini, opVars, rd, bal>>

\* addNetwork(chainID): 'Unsupported network' is thrown and reported when the
\* store or the network table does not know the chain; else addChain.
AddNetwork(c) ==
  /\ req.pc = "idle"
  /\ \E urlsKnown \in BOOLEAN :
       req' = IF urlsKnown /\ (\E n \in netList : n.chain_id = c)
                THEN RequestSent("addNetwork", c)
                ELSE [IdleReq EXCEPT !.kind = "addNetwork", !.res = "returned",
                                     !.routed = ErrorHandlerProcess(0)]
  /\ UNCHANGED <<provVars, envVars, accVars, ini, opVars, rd, bal>>

\* The operation after the wallet granted the request: it returns.
OnRequestGranted(r) ==
  [IdleReq EXCEPT !.kind = r.kind, !.res = "returned", !.ok = TRUE]

\* A variant of the catch block that throws the error on.
OnRequestErrorRethrow(r) ==
  [IdleReq EXCEPT !.kind = r.kind, !.res = "threw"]

\* The catch block of connect / switchChain / addChain: handleEthError(error).
OnRequestError(r) ==
  [IdleReq EXCEPT !.kind = r.kind, !.res = "returned",
                  !.routed = handleEthError(r.routed)]

\* A variant of the answer that takes the granted account as the selected
\* address at once.
RequestAnswerWrites ==
  /\ req.pc = "wait"
  /\ req' = OnRequestGranted(req)
  /\ selectedAddress' = "A"
  /\ UNCHANGED <<chainId, inited, refresh, prevChain, envVars, accVars, ini,
                 opVars, rd, bal>>

\* The wallet answers the request. Granted: the wallet's accounts or chain
\* change as asked (an added chain may or may not be switched to) and it
\* emits accountsChanged / chainChanged. Refused or failed: the error is
\* routed. Provider State is not written here.
RequestAnswer ==
  /\ req.pc = "wait"
  /\ \/ /\ req' = OnRequestGranted(req)
        /\ IF req.kind = "connect"
             THEN /\ \E a \in Accounts : wAccount' = a
                  /\ ListenerRuns(wAccount' # wAccount)
                  /\ UNCHANGED wChain
             ELSE /\ \/ wChain' = req.chain
                     \/ req.kind # "switchChain" /\ UNCHANGED wChain
                  /\ ListenerRuns(wChain' # wChain)
                  /\ UNCHANGED wAccount
     \/ /\ req' = OnRequestError(req)
        /\ UNCHANGED <<wChain, wAccount, refresh>>
  /\ UNCHANGED <<hasDefaultProvider, allowance, served, inited, chainId,
                 selectedAddress, prevChain, accVars, ini, opVars, rd, bal>>

\* getBalance(address) up to its await.
GetBalance ==
  /\ bal.pc = "idle"
  /\ bal' = [pc |-> "wait", res |-> "pending"]
  /\ UNCHANGED <<provVars, envVars, accVars, ini, opVars, req, rd>>

\* currentProvider.getBalance(address) answers, or throws (getBalance has no
\* catch and rejects).
BalanceAnswer ==
  /\ bal.pc = "wait"
  /\ \E res \in {"balance", "threw"} : bal' = [pc |-> "idle", res |-> res]
  /\ UNCHANGED <<provVars, envVars, accVars, ini, opVars, req, rd>>

\* ------------------------- use-contract-registry.ts / use-marketplace.ts

\* contractInstance of useContractRegistry: the wallet's provider when
\* connected, else the read-only default provider, and only with an address.
RegistryInstance ==
  \/ (isConnected /\ registryAddress # "")
  \/ (hasDefaultProvider /\ registryAddress # "")

\* contractInstance of useMarketplace.
MarketplaceInstance == contractAddress # ""

\* contractInstance of useErc721, the accessor useNftTokens creates once and
\* shares between its operations: tokenURI(tokenId) reads the contract at the
\* address the accessor holds when it is called.
Erc721Instance == erc721Addr

\* init of either accessor: `if (!address) return; contractAddress.value = address`
AccessorInit(current, address) == IF address = "" THEN current ELSE address

\* ------------------------------------------ use-nft-tokens.ts: the set-up

\* networkStore.list.find(n => n.chain_id === c)?.factory_address
FactoryAddress(nets, c) ==
  IF \E n \in nets : n.chain_id = c
    THEN (CHOOSE n \in nets : n.chain_id = c).factory_address
    ELSE ""

\* A variant without the default chain's registry.
ResolveRegistryNoFallback(nets, c) ==
  IF FactoryAddress(nets, c) # "" THEN FactoryAddress(nets, c) ELSE "throw"

\* _initContractRegistry after the list is loaded: the registry address it
\* hands to initRegistry, or "throw".
ResolveRegistry(nets, c) ==
  IF FactoryAddress(nets, c) # "" THEN FactoryAddress(nets, c)
  ELSE IF FactoryAddress(nets, DEFAULT_CHAIN_ID) # ""
    THEN FactoryAddress(nets, DEFAULT_CHAIN_ID)
    ELSE "throw"

AddCall(p, kind) ==
  IF p \in DOMAIN calls THEN [calls EXCEPT ![p] = @ \cup {kind}] ELSE calls

\* Where run p stands after its set-up ended with `outcome` ("done", "threw"):
\* a watcher callback is over, an operation goes on (or rejects).
Ended(p, outcome) ==
  IF p \in Watchers THEN IdleIni ELSE [IdleIni EXCEPT !.pc = outcome]

\* The synchronous tail of _initContractRegistry(c) for run p over list nets.
RegistryResolved(p, nets, c) ==
  IF ResolveRegistry(nets, c) = "throw"
    THEN /\ ini' = [ini EXCEPT ![p] = Ended(p, "threw")]
         /\ UNCHANGED registryAddress
    ELSE /\ registryAddress' = AccessorInit(registryAddress, ResolveRegistry(nets, c))
         /\ ini' = [ini EXCEPT ![p] = [IdleIni EXCEPT !.pc = "mp"]]

\* _initContractRegistry(Number(c)) up to its first await, for run p.
IniStart(p, c) ==
  IF netList = {}
    THEN /\ ini' = [ini EXCEPT ![p] = [IdleIni EXCEPT !.pc = "load", !.chain = c]]
         /\ UNCHANGED registryAddress
    ELSE RegistryResolved(p, netList, c)

\* The calls operation p has issued when its set-up has started.
StartCalls(p) ==
  [calls EXCEPT ![p] = IF netList = {} THEN {"loadNetworks"} ELSE {}]

\* ------------------------------- useMetamask: _updateProviderState

FreeWatcher == {w \in Watchers :
                  ini[w].pc = "idle" /\ (w = "w1" \/ ini["w1"].pc # "idle")}

\* detectNetwork() answers: chainId is written and listAccounts() requested;
\* or it throws and the catch routes the error. A changed chainId triggers
\* watch(() => provider.value.chainId, ...), whose callback starts before
\* any other answer arrives.
RefreshNetwork(i) ==
  /\ refresh[i] = "detect"
  /\ \/ /\ chainId' = NetworkAnswer(i)
        /\ refresh' = [refresh EXCEPT ![i] = "list"]
        /\ prevChain' = (IF chainId' # chainId THEN chainId ELSE prevChain)
        /\ IF chainId' # chainId
             THEN \E w \in FreeWatcher : IniStart(w, chainId')
             ELSE UNCHANGED <<ini, registryAddress>>
     \/ /\ refresh' = [refresh EXCEPT ![i] = "idle"]
        /\ UNCHANGED <<chainId, prevChain, ini, registryAddress>>
  /\ served' = [served EXCEPT ![i] = NotServed]
  /\ UNCHANGED <<wrapVars, selectedAddress, inited, wChain, wAccount,
                 hasDefaultProvider, allowance, netList, marketPlaceAddress,
                 contractAddress, opVars>>

\* listAccounts() answers: selectedAddress is written (currentAccounts[0],
\* falsy when the list is empty); or it throws and the catch routes the error.
RefreshAccounts(i) ==
  /\ refresh[i] = "list"
  /\ \/ selectedAddress' = AccountsAnswer(i)
     \/ UNCHANGED selectedAddress
  /\ refresh' = [refresh EXCEPT ![i] = "idle"]
  /\ served' = [served EXCEPT ![i] = NotServed]
  /\ UNCHANGED <<wrapVars, chainId, inited, prevChain, wChain, wAccount,
                 hasDefaultProvider, allowance, accVars, ini, opVars>>

\* ------------------------------------ the set-up runs, after their start

\* loadNetworks() answers with the list the store now holds.
IniLoaded(p) ==
  /\ ini[p].pc = "load"
  /\ \E nets \in NetworkLists :
       /\ netList' = nets
       /\ RegistryResolved(p, nets, ini[p].chain)
  /\ UNCHANGED <<wrapVars, provVars, envVars, marketPlaceAddress, contractAddress,
                 opVars>>

\* _initMarketPlace(): getMarketPlaceAddress() is called; without a contract
\* instance it answers undefined and _initMarketPlace returns.
IniLookupCall(p) ==
  /\ ini[p].pc = "mp"
  /\ IF RegistryInstance
       THEN /\ ini' = [ini EXCEPT ![p].pc = "lookup",
                                  ![p].reg = registryAddress]
            /\ calls' = AddCall(p, "registry")
       ELSE /\ ini' = [ini EXCEPT ![p] = Ended(p, "done")]
            /\ UNCHANGED calls
  /\ UNCHANGED <<wrapVars, provVars, envVars, accVars, tx, lastRead, list,
                 nft, ap, erc721Addr, erc20Addr>>

\* A variant of the answer that keeps the address for the orchestrator and
\* leaves out initMarketPlace(address).
IniLookupAnswerSkipInit(p) ==
  /\ ini[p].pc = "lookup"
  /\ \E answer \in {MarketOf[ini[p].reg], ""} :
       marketPlaceAddress' = (IF answer = "" THEN marketPlaceAddress ELSE answer)
  /\ ini' = [ini EXCEPT ![p] = Ended(p, "done")]
  /\ UNCHANGED <<wrapVars, provVars, envVars, netList, registryAddress,
                 contractAddress, opVars>>

\* getMarketplaceContract() answers (or fails, which getMarketPlaceAddress
\* turns into undefined); a truthy answer is bound in both places.
IniLookupAnswer(p) ==
  /\ ini[p].pc = "lookup"
  /\ \E answer \in {MarketOf[ini[p].reg], ""} :
       /\ marketPlaceAddress' = (IF answer = "" THEN marketPlaceAddress ELSE answer)
       /\ contractAddress' = (IF answer = "" THEN contractAddress
                              ELSE AccessorInit(contractAddress, answer))
  /\ ini' = [ini EXCEPT ![p] = Ended(p, "done")]
  /\ UNCHANGED <<wrapVars, provVars, envVars, netList, registryAddress,
                 opVars>>

\* ------------------------------------------------------------- purchases

TxKinds == {"ETH", "ERC20", "NFT"}

\* A variant in which mintWithNft calls the ERC-20 purchase.
BuyOperationCopied(kind) ==
  IF kind = "ETH" THEN "buyTokenWithETH" ELSE "buyTokenWithERC20"

\* The purchase operation mintWith<kind> delegates to.
BuyOperation(kind) ==
  IF kind = "ETH" THEN "buyTokenWithETH"
  ELSE IF kind = "ERC20" THEN "buyTokenWithERC20"
  ELSE "buyTokenWithNFT"

\* A variant in which every purchase returns early without a contract
\* instance or while a set-up run of the chain watcher is still in flight.
BuyTokenSendsSettled(kind) ==
  MarketplaceInstance /\ \A w \in Watchers : ini[w].pc = "idle"

\* Whether buyTokenWith<kind> goes on to send: only the ETH variant returns
\* early without a contract instance.
BuyTokenSends(kind) == IF kind = "ETH" THEN MarketplaceInstance ELSE TRUE

\* A variant of the ETH request that spreads `value` in unconditionally.
TxRequestAlwaysValue(kind, value) ==
  [IdleTx EXCEPT !.pc = "send", !.kind = kind, !.to = contractAddress,
                 !.value = (kind = "ETH"), !.given = value,
                 !.called = BuyOperation(kind), !.chainAt = chainId,
                 !.res = "pending"]

\* The request handed to signAndSendTx; `value` is spread in only by the ETH
\* variant and only when truthy.
TxRequest(kind, value) ==
  [IdleTx EXCEPT !.pc = "send", !.kind = kind, !.to = contractAddress,
                 !.value = (kind = "ETH" /\ value), !.given = value,
                 !.called = BuyOperation(kind), !.chainAt = chainId,
                 !.res = "pending"]

\* mintWithEth(buyParams, signature, amountOfEth) / mintWithErc20 / mintWithNft
\* up to the await inside signAndSendTransaction: nothing without a chain
\* id; else the purchase operation is called, which returns undefined at
\* once or requests sendTransaction().
Mint(kind, value) ==
  /\ tx.pc = "idle"
  /\ tx' = IF chainId = 0
             THEN [IdleTx EXCEPT !.res = "noop"]
           ELSE IF ~BuyTokenSends(kind)
             THEN [IdleTx EXCEPT !.res = "undefined", !.kind = kind,
                                 !.called = BuyOperation(kind)]
             ELSE TxRequest(kind, value)
  /\ UNCHANGED <<wrapVars, provVars, envVars, accVars, ini, lastRead,
                 list, nft, ap, calls, erc721Addr, erc20Addr>>

\* A variant that returns the response without awaiting wait().
OnSubmittedNoWait(t) == [IdleTx EXCEPT !.res = "response"]

\* signAndSendTransaction after sendTransaction() answered: it awaits
\* transactionResponse.wait().
OnSubmitted(t) == [t EXCEPT !.pc = "wait"]

\* signAndSendTransaction after wait() answered: return transactionResponse.
OnConfirmed(t) == [IdleTx EXCEPT !.res = "response"]

\* The catch block of signAndSendTransaction: the error is routed and the
\* function ends without a return value; the purchase operation returns it.
OnTxError(t) ==
  [IdleTx EXCEPT !.res = "undefined", !.routed = handleEthError(t.routed)]

\* sendTransaction() answers: wait() is requested; or it throws and
\* signAndSendTransaction returns undefined.
TxSubmitted ==
  /\ tx.pc = "send"
  /\ \/ tx' = OnSubmitted(tx)
     \/ tx' = OnTxError(tx)
  /\ UNCHANGED <<wrapVars, provVars, envVars, accVars, ini, lastRead,
                 list, nft, ap, calls, erc721Addr, erc20Addr>>

\* wait() answers or throws: the purchase call returns.
TxConfirmed ==
  /\ tx.pc = "wait"
  /\ \/ tx' = OnConfirmed(tx)
     \/ tx' = OnTxError(tx)
  /\ UNCHANGED <<wrapVars, provVars, envVars, accVars, ini, lastRead,
                 list, nft, ap, calls, erc721Addr, erc20Addr>>

\* ------------------------------------------------- the marketplace reads

ReadKinds == {"getTokenParams", "getTokenContractsCount", "getBooksContracts",
              "getBooksBatch", "getUserTokens"}

\* A variant that calls the contract without testing the instance.
ReadUnguarded(kind) ==
  [IdleRd EXCEPT !.pc = "wait", !.kind = kind, !.issued = TRUE,
                 !.res = "pending"]

\* `if (!contractInstance.value) return`
ReadWithoutInstance(kind) ==
  [IdleRd EXCEPT !.kind = kind, !.res = "undefined"]

\* A read of the marketplace accessor up to its await: undefined without a
\* contract instance, else the contract method is called.
ReadCall(kind) ==
  /\ rd.pc = "idle"
  /\ IF MarketplaceInstance
       THEN /\ rd' = [IdleRd EXCEPT !.pc = "wait", !.kind = kind,
                                    !.issued = TRUE, !.res = "pending"]
            /\ lastRead' = contractAddress
       ELSE /\ rd' = ReadWithoutInstance(kind)
            /\ UNCHANGED lastRead
  /\ UNCHANGED <<provVars, envVars, accVars, ini, tx, list, nft, ap, calls,
                 erc721Addr, erc20Addr, req, bal>>

\* The catch block of a read: handleEthError(error), no return value.
OnReadError(r) ==
  [IdleRd EXCEPT !.kind = r.kind, !.issued = TRUE, !.res = "undefined",
                 !.routed = handleEthError(r.routed)]

\* The contract method answers (`return data`) or throws.
ReadAnswer ==
  /\ rd.pc = "wait"
  /\ \/ rd' = [IdleRd EXCEPT !.kind = rd.kind, !.issued = TRUE,
                             !.res = "data"]
     \/ rd' = OnReadError(rd)
  /\ UNCHANGED <<provVars, envVars, accVars, ini, opVars, req, bal>>

\* ------------------------------------------------------------ getNftList

Collections == {"K1", "K2"}

\* A BigNumber token id as its hex digits (el._hex), most significant first.
HexIds == {<<1>>, <<1, 0>>}

RECURSIVE HexValue(_)
HexValue(h) ==
  IF Len(h) = 0 THEN 0
  ELSE 16 * HexValue(SubSeq(h, 1, Len(h) - 1)) + h[Len(h)]

\* A number as its decimal digits: BN.toString().
RECURSIVE DecString(_)
DecString(n) ==
  IF n < 10 THEN <<n>> ELSE DecString(n \div 10) \o <<n % 10>>

RECURSIVE MapIds(_)
MapIds(ids) ==
  IF Len(ids) = 0 THEN <<>>
  ELSE <<DecString(HexValue(Head(ids)))>> \o MapIds(Tail(ids))

\* _formatToken
FormatToken(token) ==
  [tokenContract |-> token.tokenContract, tokenIds |-> MapIds(token.tokenIds)]

\* rawData.filter(el => el.tokenIds.length > 0).map(el => _formatToken(el))
RECURSIVE FilteredData(_)
FilteredData(raw) ==
  IF Len(raw) = 0 THEN <<>>
  ELSE (IF Len(Head(raw).tokenIds) > 0 THEN <<FormatToken(Head(raw))>> ELSE <<>>)
         \o FilteredData(Tail(raw))

\* The answers of getUserTokensPart: per token contract, the ids the user owns
\* (distinct), the contracts distinct; a contract may come with no id.
IdLists ==
  {ids \in UNION {[1..n -> HexIds] : n \in 0..MaxIds} :
     \A i, j \in 1..Len(ids) : i # j => ids[i] # ids[j]}

RawAnswers ==
  {<<>>}
  \cup {<<[tokenContract |-> "K1", tokenIds |-> a]>> : a \in IdLists}
  \cup {<<[tokenContract |-> "K2", tokenIds |-> ab[1]],
          [tokenContract |-> "K1", tokenIds |-> ab[2]]>> :
            ab \in {x \in IdLists \X IdLists : Len(x[1]) + Len(x[2]) <= MaxIds}}

\* The invocation's record. History kept with it: the limit it was called
\* with, what getUserTokens answered (raw) and the number of token ids in
\* it (owned, -1 before an answer) and, per token dealt with, how its two
\* fetches went (log).
IdleList == [pc |-> "idle", data |-> <<>>, ci |-> 0, ti |-> 0, out |-> <<>>,
             url |-> <<>>, uriFrom |-> "", log |-> <<>>, res |-> "none",
             limit |-> 0, owned |-> -1, raw |-> <<>>]

RECURSIVE CountIds(_)
CountIds(raw) ==
  IF Len(raw) = 0 THEN 0 ELSE Len(Head(raw).tokenIds) + CountIds(Tail(raw))

\* getNftList is over: res is "ok" (it returned `out`) or the error it
\* rejected with.
ListReturn(res, out) == [IdleList EXCEPT !.res = res, !.out = out,
                                         !.limit = list.limit]

\* The metadata URI the ERC-721 contract at `contract` holds for token `id`,
\* and the document behind a URI.
TokenUriOf(contract, id) == <<contract, id>>
MetadataAt(url) == <<"doc", url>>

\* A variant of the start without the `if (!limit) return []` line.
ListStartNoLimitCheck(limit) ==
  /\ list.pc = "idle"
  /\ ini["list"].pc = "idle"
  /\ list' = [IdleList EXCEPT !.pc = "init", !.res = "pending",
                              !.limit = limit]
  /\ calls' = StartCalls("list")
  /\ IniStart("list", chainId)
  /\ UNCHANGED <<wrapVars, provVars, envVars, netList, marketPlaceAddress,
                 contractAddress, tx, lastRead, nft, ap,
                 erc721Addr, erc20Addr>>

\* getNftList(userAddress, limit, offset) up to its first await.
ListStart(limit) ==
  /\ list.pc = "idle"
  /\ ini["list"].pc = "idle"
  /\ IF limit = 0
       THEN /\ list' = [IdleList EXCEPT !.res = "ok", !.limit = limit]
            /\ calls' = [calls EXCEPT !["list"] = {}]
            /\ UNCHANGED <<ini, registryAddress>>
       ELSE /\ list' = [IdleList EXCEPT !.pc = "init", !.res = "pending",
                                       !.limit = limit]
            /\ calls' = StartCalls("list")
            /\ IniStart("list", chainId)
  /\ UNCHANGED <<wrapVars, provVars, envVars, netList, marketPlaceAddress,
                 contractAddress, tx, lastRead, nft, ap,
                 erc721Addr, erc20Addr>>

\* _initContractRegistry threw: getNftList rejects.
ListSetupThrew ==
  /\ list.pc = "init"
  /\ ini["list"].pc = "threw"
  /\ ini' = [ini EXCEPT !["list"] = IdleIni]
  /\ list' = ListReturn("failed to get default registry address", <<>>)
  /\ UNCHANGED <<wrapVars, provVars, envVars, accVars, tx, lastRead, nft,
                 ap, calls, erc721Addr, erc20Addr>>

\* getUserTokens(userAddress, limit, offset): without a contract instance it
\* answers undefined and getNftList returns [].
ListTokensCall ==
  /\ list.pc = "init"
  /\ ini["list"].pc = "done"
  /\ ini' = [ini EXCEPT !["list"] = IdleIni]
  /\ IF MarketplaceInstance
       THEN /\ list' = [list EXCEPT !.pc = "tokens"]
            /\ calls' = AddCall("list", "userTokens")
            /\ lastRead' = contractAddress
       ELSE /\ list' = ListReturn("ok", <<>>)
            /\ UNCHANGED <<calls, lastRead>>
  /\ UNCHANGED <<wrapVars, provVars, envVars, accVars, tx, nft, ap,
                 erc721Addr, erc20Addr>>

\* The loop of getNftList after the token at (ci, ti) is dealt with, the
\* entries so far being `out`: the next tokenURI(tokenId) is requested from
\* the shared ERC-721 accessor (re-initialised when a new contract starts),
\* or the list is returned.
ListNext(out, log) ==
  LET ids == list.data[list.ci].tokenIds IN
  IF list.ti < Len(ids)
    THEN /\ list' = [list EXCEPT !.pc = "uri", !.ti = @ + 1, !.out = out,
                                 !.log = log, !.url = <<>>,
                                 !.uriFrom = Erc721Instance]
         /\ UNCHANGED erc721Addr
    ELSE IF list.ci < Len(list.data)
      THEN /\ erc721Addr' =
                AccessorInit(erc721Addr, list.data[list.ci + 1].tokenContract)
           /\ list' = [list EXCEPT !.pc = "uri", !.ci = @ + 1, !.ti = 1,
                                   !.out = out, !.log = log, !.url = <<>>,
                                   !.uriFrom = Erc721Instance']
      ELSE /\ list' = [list EXCEPT !.pc = "idle", !.res = "ok", !.out = out,
                                   !.log = log, !.url = <<>>, !.uriFrom = "",
                                   !.ci = 0, !.ti = 0]
           /\ UNCHANGED erc721Addr

\* getUserTokensPart answers (or fails: undefined, and getNftList returns []).
ListTokensAnswer ==
  /\ list.pc = "tokens"
  /\ \/ /\ list' = ListReturn("ok", <<>>)
        /\ UNCHANGED <<erc721Addr, calls>>
     \/ \E raw \in RawAnswers :
       IF FilteredData(raw) = <<>>
         THEN /\ list' = [ListReturn("ok", <<>>) EXCEPT !.owned = CountIds(raw),
                                                          !.raw = raw]
              /\ UNCHANGED <<erc721Addr, calls>>
         ELSE /\ erc721Addr' =
                   AccessorInit(erc721Addr, FilteredData(raw)[1].tokenContract)
              /\ list' = [list EXCEPT !.pc = "uri", !.data = FilteredData(raw),
                                      !.ci = 1, !.ti = 1,
                                      !.owned = CountIds(raw), !.raw = raw,
                                      !.uriFrom = Erc721Instance']
              /\ calls' = AddCall("list", "tokenURI")
  /\ UNCHANGED <<wrapVars, provVars, envVars, accVars, ini, tx, lastRead,
                 nft, ap, erc20Addr>>

ListToken == [tokenContract |-> list.data[list.ci].tokenContract,
              tokenId |-> list.data[list.ci].tokenIds[list.ti]]

\* Variants that keep a token whose fetch gave nothing (no `continue`).
OnUriMissingPush(out, token) ==
  Append(out, [tokenContract |-> token.tokenContract,
               tokenId |-> token.tokenId, metadata |-> <<>>])

OnMetadataMissingPush(out, token) ==
  Append(out, [tokenContract |-> token.tokenContract,
               tokenId |-> token.tokenId, metadata |-> <<>>])

\* What the listing does with a token whose tokenURI read gave nothing, and
\* with one whose metadata fetch gave nothing: `continue`.
OnUriMissing(out, token) == out
OnMetadataMissing(out, token) == out
\* proccessedData.push({tokenContract, tokenId, metadata})
OnMetadata(out, token, metadata) ==
  Append(out, [tokenContract |-> token.tokenContract,
               tokenId |-> token.tokenId, metadata |-> metadata])

ListHasNext ==
  \/ list.ti < Len(list.data[list.ci].tokenIds)
  \/ list.ci < Len(list.data)

\* tokenURI(tokenId) answers: a URI, and the metadata fetch is requested; or
\* nothing, and the loop continues.
ListUriAnswer ==
  /\ list.pc = "uri"
  /\ \/ /\ list' = [list EXCEPT !.pc = "meta",
                      !.url = TokenUriOf(list.uriFrom, ListToken.tokenId)]
        /\ calls' = AddCall("list", "metadata")
        /\ UNCHANGED erc721Addr
     \/ /\ ListNext(OnUriMissing(list.out, ListToken),
                    Append(list.log, [token |-> ListToken, uri |-> FALSE,
                                      meta |-> FALSE]))
        /\ calls' = IF ListHasNext THEN AddCall("list", "tokenURI") ELSE calls
  /\ UNCHANGED <<wrapVars, provVars, envVars, accVars, ini, tx, lastRead,
                 nft, ap, erc20Addr>>

\* The metadata fetch answers within the timeout, or gives null.
ListMetaAnswer ==
  /\ list.pc = "meta"
  /\ \/ ListNext(OnMetadata(list.out, ListToken, MetadataAt(list.url)),
                 Append(list.log, [token |-> ListToken, uri |-> TRUE,
                                   meta |-> TRUE]))
     \/ ListNext(OnMetadataMissing(list.out, ListToken),
                 Append(list.log, [token |-> ListToken, uri |-> TRUE,
                                   meta |-> FALSE]))
  /\ calls' = IF ListHasNext THEN AddCall("list", "tokenURI") ELSE calls
  /\ UNCHANGED <<wrapVars, provVars, envVars, accVars, ini, tx, lastRead,
                 nft, ap, erc20Addr>>

\* ---------------------------------------------------------------- getNft

IdleNft == [pc |-> "idle", coll |-> "", id |-> <<>>, url |-> <<>>,
            uriFrom |-> "", res |-> "none", metadata |-> <<>>,
            payment |-> ""]

\* getNft is over: res is "ok" or the error it rejected with.
NftReturn(res) == [IdleNft EXCEPT !.res = res]

TokenIds == {DecString(HexValue(h)) : h \in HexIds}

\* getNft(collectionAddress, tokenId) up to its first await.
NftStart(coll, id) ==
  /\ nft.pc = "idle"
  /\ ini["nft"].pc = "idle"
  /\ IF ~isConnected
       THEN /\ nft' = NftReturn("Provider is not connected")
            /\ calls' = [calls EXCEPT !["nft"] = {}]
            /\ UNCHANGED <<ini, registryAddress>>
       ELSE /\ nft' = [IdleNft EXCEPT !.pc = "init", !.coll = coll, !.id = id,
                                      !.res = "pending"]
            /\ calls' = StartCalls("nft")
            /\ IniStart("nft", chainId)
  /\ UNCHANGED <<wrapVars, provVars, envVars, netList, marketPlaceAddress,
                 contractAddress, tx, lastRead, list, ap,
                 erc721Addr, erc20Addr>>

\* _initContractRegistry threw: getNft rejects.
NftSetupThrew ==
  /\ nft.pc = "init"
  /\ ini["nft"].pc = "threw"
  /\ ini' = [ini EXCEPT !["nft"] = IdleIni]
  /\ nft' = NftReturn("failed to get default registry address")
  /\ UNCHANGED <<wrapVars, provVars, envVars, accVars, tx, lastRead, list,
                 ap, calls, erc721Addr, erc20Addr>>

\* initErc721(collectionAddress) and tokenURI(tokenId) requested.
NftUriCall ==
  /\ nft.pc = "init"
  /\ ini["nft"].pc = "done"
  /\ ini' = [ini EXCEPT !["nft"] = IdleIni]
  /\ erc721Addr' = AccessorInit(erc721Addr, nft.coll)
  /\ nft' = [nft EXCEPT !.pc = "uri", !.uriFrom = Erc721Instance']
  /\ calls' = AddCall("nft", "tokenURI")
  /\ UNCHANGED <<wrapVars, provVars, envVars, accVars, tx, lastRead, list,
                 ap, erc20Addr>>

\* What getNft does when the tokenURI read, or the metadata fetch, gave
\* nothing: it throws.
NftOnUriMissing == NftReturn("Failed to get tokenURI")
NftOnMetadataMissing == NftReturn("Failed to get metadata")

\* tokenURI(tokenId) answers.
NftUriAnswer ==
  /\ nft.pc = "uri"
  /\ \/ /\ nft' = [nft EXCEPT !.pc = "meta",
                              !.url = TokenUriOf(nft.uriFrom, nft.id)]
        /\ calls' = AddCall("nft", "metadata")
     \/ /\ nft' = NftOnUriMissing
        /\ UNCHANGED calls
  /\ UNCHANGED <<wrapVars, provVars, envVars, accVars, ini, tx, lastRead,
                 list, ap, erc721Addr, erc20Addr>>

\* The metadata fetch answers within the timeout, or gives null.
NftMetaAnswer ==
  /\ nft.pc = "meta"
  /\ \/ /\ nft' = [nft EXCEPT !.pc = "pay", !.metadata = MetadataAt(nft.url)]
        /\ calls' = AddCall("nft", "payment")
     \/ /\ nft' = NftOnMetadataMissing
        /\ UNCHANGED calls
  /\ UNCHANGED <<wrapVars, provVars, envVars, accVars, ini, tx, lastRead,
                 list, ap, erc721Addr, erc20Addr>>

\* The payments query answers: data[0] (none when the page is empty) is
\* joined; or the request throws and getNft rejects.
NftPaymentAnswer ==
  /\ nft.pc = "pay"
  /\ \/ \E payment \in {"payment", Undef} :
          nft' = [nft EXCEPT !.pc = "idle", !.res = "ok", !.payment = payment,
                             !.uriFrom = ""]
     \/ nft' = NftReturn("payments request failed")
  /\ UNCHANGED <<wrapVars, provVars, envVars, accVars, ini, tx, lastRead,
                 list, ap, calls, erc721Addr, erc20Addr>>

\* ----------------------------------------------------- approveTokenSpend

\* An amount string is <<n>>, a missing (falsy) one <<>>; likewise an
\* allowance read is <<n>>, or <<>> when getAllowance gave undefined.
Amounts == {<<n>> : n \in 0..MaxAmount}
TokenTypes == {"erc20", "voucher", "nft", "native"}

\* BN(a).compare(b)
BNCompare(a, b) == IF a > b THEN 1 ELSE IF a = b THEN 0 ELSE -1

\* allowance?.toString() || 0
AllowanceOrZero(read) == IF read = <<>> THEN 0 ELSE read[1]

\* Variants of the branch, for comparison: one that takes an equal allowance
\* for too little, one that re-reads without requesting an approval.
AllowanceBranchStrict(read, amount) ==
  IF BNCompare(AllowanceOrZero(read), amount) = 1 THEN "true" ELSE "approve"

AllowanceBranchNoApprove(read, amount) ==
  IF BNCompare(AllowanceOrZero(read), amount) >= 0 THEN "true" ELSE "recurse"

\* The branch _isErc20TokenApproved takes on an allowance read: "true"
\* (return true), "approve" (approveErc20, then recurse) or "recurse".
AllowanceBranch(read, amount) ==
  IF BNCompare(AllowanceOrZero(read), amount) = 1
     \/ BNCompare(AllowanceOrZero(read), amount) = 0
    THEN "true"
  ELSE IF BNCompare(AllowanceOrZero(read), amount) = -1
    THEN "approve"
    ELSE "recurse"

\* The invocation's record. History kept with it: the allowance last read
\* (read, -1 before the first) and whether it was below the amount (below); the approvals
\* requested since that read (since) and, when the next read is requested,
\* how many there were in between (gap); the approvals requested in all and
\* how many of them left the allowance as it was (silent); the last approval
\* request (approved); which of the parameters its token type requires
\* (tokenAmount, tokenAddress, tokenId) the call was given (args).
IdleAp == [pc |-> "idle", type |-> "none", amount |-> 0, spender |-> "",
           read |-> -1, below |-> FALSE, since |-> 0, gap |-> 0,
           approvals |-> 0, silent |-> 0, approved |-> <<>>, res |-> "none",
           args |-> [amount |-> FALSE, address |-> FALSE, id |-> FALSE]]

\* A variant of the round without the test of the selected address.
CheckRoundUnchecked(a, tokenAddress) ==
  /\ erc20Addr' = AccessorInit(erc20Addr, tokenAddress)
  /\ ap' = [a EXCEPT !.pc = "allow", !.spender = marketPlaceAddress,
                     !.gap = a.since]
  /\ calls' = [calls EXCEPT !["ap"] = @ \cup {"allowance"}]

\* One round of _isErc20TokenApproved(amount, tokenAddress) up to its await:
\* false without a selected address, else getAllowance(selectedAddress,
\* marketPlaceAddress) is requested. `a` is the invocation's record so far.
CheckRound(a, tokenAddress) ==
  IF selectedAddress = ""
    THEN /\ ap' = [a EXCEPT !.pc = "idle", !.res = "false"]
         /\ UNCHANGED <<erc20Addr, calls>>
    ELSE /\ erc20Addr' = AccessorInit(erc20Addr, tokenAddress)
         /\ ap' = [a EXCEPT !.pc = "allow", !.spender = marketPlaceAddress,
                            !.gap = a.since]
         /\ calls' = [calls EXCEPT !["ap"] = @ \cup {"allowance"}]

\* A variant of the recursion that gives up after a failed approval.
RecheckBounded(a) ==
  IF a.silent >= 1
    THEN /\ ap' = [a EXCEPT !.pc = "idle", !.res = "false"]
         /\ UNCHANGED <<erc20Addr, calls>>
    ELSE CheckRound(a, "")

\* `return _isErc20TokenApproved(tokenAmount)`: the recursion, unbounded.
Recheck(a) == CheckRound(a, "")

ApproveNoop(a) ==
  /\ ap' = [a EXCEPT !.res = "noop"]
  /\ UNCHANGED <<erc20Addr, erc721Addr>>

\* A variant of the parameter test that forgets the amount.
Erc20ParamsMissingAddressOnly(tokenAddress, amount) == tokenAddress = ""

\* if (!tokenAddress || !tokenAmount) return
Erc20ParamsMissing(tokenAddress, amount) == tokenAddress = "" \/ amount = <<>>

\* approveTokenSpend(tokenType, tokenAmount, tokenAddress, tokenId) up to its
\* first await. "" and <<>> are missing arguments.
ApproveStart(type, amount, tokenAddress, tokenId) ==
  /\ ap.pc = "idle"
  /\ LET a == [IdleAp EXCEPT !.type = type, !.res = "pending",
                             !.amount = IF type \in {"erc20", "voucher"}
                                           /\ amount # <<>>
                                          THEN amount[1] ELSE 0,
                             !.args = [amount |-> type \in {"erc20", "voucher"}
                                                    /\ amount # <<>>,
                                       address |-> type \in {"erc20", "voucher", "nft"}
                                                    /\ tokenAddress # "",
                                       id |-> type = "nft" /\ tokenId # <<>>]]
     IN
     IF selectedAddress = "" \/ marketPlaceAddress = ""
       THEN ApproveNoop(a)
     ELSE IF type \in {"erc20", "voucher"}
       THEN IF Erc20ParamsMissing(tokenAddress, amount)
              THEN ApproveNoop(a)
              ELSE /\ erc20Addr' = AccessorInit(erc20Addr, tokenAddress)
                   /\ ap' = [a EXCEPT !.pc = "allow",
                                      !.spender = marketPlaceAddress]
                   /\ UNCHANGED erc721Addr
     ELSE IF type = "nft"
       THEN IF tokenAddress = "" \/ tokenId = <<>>
              THEN ApproveNoop(a)
              ELSE /\ erc721Addr' = AccessorInit(erc721Addr, tokenAddress)
                   /\ ap' = [a EXCEPT !.pc = "approve721",
                                      !.spender = marketPlaceAddress]
                   /\ UNCHANGED erc20Addr
       ELSE ApproveNoop(a)
  /\ calls' = [calls EXCEPT !["ap"] =
                 IF ap'.pc = "allow" THEN {"allowance"}
                 ELSE IF ap'.pc = "approve721" THEN {"approve721"} ELSE {}]
  /\ UNCHANGED <<wrapVars, provVars, envVars, accVars, ini, tx, lastRead,
                 list, nft>>

\* getAllowance answers (undefined when the read fails): return true, or
\* request approveErc20(marketPlaceAddress, amount).
AllowanceAnswer ==
  /\ ap.pc = "allow"
  /\ \E read \in {<<allowance[ap.spender]>>, <<>>} :
       LET a == [ap EXCEPT !.read = AllowanceOrZero(read), !.since = 0,
                           !.below = (AllowanceOrZero(read) < ap.amount)]
       IN
       IF AllowanceBranch(read, ap.amount) = "true"
         THEN /\ ap' = [a EXCEPT !.pc = "idle", !.res = "true"]
              /\ UNCHANGED <<calls, erc20Addr>>
       ELSE IF AllowanceBranch(read, ap.amount) = "approve"
         THEN /\ ap.approvals < MaxApprovals
              /\ ap' = [a EXCEPT !.pc = "approve", !.since = 1,
                                 !.approvals = @ + 1,
                                 !.approved = <<marketPlaceAddress, ap.amount>>]
              /\ calls' = [calls EXCEPT !["ap"] = @ \cup {"approve"}]
              /\ UNCHANGED erc20Addr
         ELSE Recheck(a)
  /\ UNCHANGED <<wrapVars, provVars, envVars, accVars, ini, tx, lastRead,
                 list, nft, erc721Addr>>

\* approveErc20 returns: the approval took effect on chain, or it did not
\* (rejected in the wallet, reverted; the error is routed, nothing thrown).
\* Then the recursion.
ApproveAnswer ==
  /\ ap.pc = "approve"
  /\ \/ /\ allowance' = [allowance EXCEPT ![ap.approved[1]] = ap.approved[2]]
        /\ Recheck(ap)
     \/ /\ UNCHANGED allowance
        /\ Recheck([ap EXCEPT !.silent = @ + 1])
  /\ UNCHANGED <<wrapVars, wChain, wAccount, hasDefaultProvider, served, provVars,
                 accVars, ini, tx, lastRead, list, nft, erc721Addr>>

\* approveErc721(marketPlaceAddress, tokenId) returns.
Approve721Answer ==
  /\ ap.pc = "approve721"
  /\ ap' = [ap EXCEPT !.pc = "idle", !.res = "done"]
  /\ UNCHANGED <<wrapVars, provVars, envVars, accVars, ini, tx, lastRead,
                 list, nft, calls, erc721Addr, erc20Addr>>

\* --------------------------------------------------------- specifications

\* The state after useMetamask(provider) and useNftTokens() are constructed:
\* nothing is connected, the network list is not loaded, and the immediate
\* run of the chain watcher waits in loadNetworks().
Init ==
  /\ wChain \in Chains
  /\ wAccount \in Accounts \cup {""}
  /\ hasDefaultProvider \in BOOLEAN
  /\ allowance = [m \in Markets |-> 0]
  /\ served = [i \in RefreshIds |-> NotServed]
  /\ inited = FALSE
  /\ chainId = 0
  /\ prevChain = 0
  /\ selectedAddress = ""
  /\ refresh = [i \in RefreshIds |-> "idle"]
  /\ netList = {}
  /\ registryAddress = ""
  /\ marketPlaceAddress = ""
  /\ contractAddress = ""
  /\ erc721Addr = ""
  /\ erc20Addr = ""
  /\ ini = [p \in IniProcs |->
              IF p = "w1" THEN [IdleIni EXCEPT !.pc = "load"] ELSE IdleIni]
  /\ tx = IdleTx
  /\ lastRead = ""
  /\ list = IdleList
  /\ nft = IdleNft
  /\ ap = IdleAp
  /\ calls = [p \in {"list", "nft", "ap"} |-> {}]
  /\ req = IdleReq
  /\ rd = IdleRd
  /\ bal = IdleBal

\* The wallet and the provider wrapper.
NextProvider ==
  \/ ProviderInit
  \/ WalletChainChanged
  \/ WalletAccountsChanged
  \/ WalletDisconnect
  \/ \E i \in RefreshIds : RefreshNetwork(i)
  \/ \E i \in RefreshIds : RefreshAccounts(i)

\* The chain watcher and every run of the registry / marketplace set-up.
NextSetup ==
  \/ \E p \in IniProcs : IniLoaded(p)
  \/ \E p \in IniProcs : IniLookupCall(p)
  \/ \E p \in IniProcs : IniLookupAnswer(p)

\* The calls of the three mints: only mintWithEth takes an amount.
MintCalls == {<<"ETH", TRUE>>, <<"ETH", FALSE>>, <<"ERC20", FALSE>>,
              <<"NFT", FALSE>>}

NextPurchase ==
  \/ \E c \in MintCalls : Mint(c[1], c[2])
  \/ TxSubmitted
  \/ TxConfirmed

NextList ==
  \/ \E limit \in {0, 1} : ListStart(limit)
  \/ ListSetupThrew
  \/ ListTokensCall
  \/ ListTokensAnswer
  \/ ListUriAnswer
  \/ ListMetaAnswer

\* getNft after its start.
NftSteps ==
  \/ NftSetupThrew
  \/ NftUriCall
  \/ NftUriAnswer
  \/ NftMetaAnswer
  \/ NftPaymentAnswer

NextNft ==
  \/ \E coll \in Collections, id \in TokenIds : NftStart(coll, id)
  \/ NftSteps

\* Lookups of the tokens of one collection.
NextNftOf(coll) ==
  \/ \E id \in TokenIds : NftStart(coll, id)
  \/ NftSteps

NextApprove ==
  \/ \E type \in TokenTypes, amount \in Amounts \cup {<<>>},
        tokenAddress \in {"", "T1"}, tokenId \in {<<>>, <<1>>} :
       ApproveStart(type, amount, tokenAddress, tokenId)
  \/ AllowanceAnswer
  \/ ApproveAnswer
  \/ Approve721Answer

NextRead ==
  \/ \E kind \in ReadKinds : ReadCall(kind)
  \/ ReadAnswer

\* The requests to the wallet.
NextRequest ==
  \/ Connect
  \/ \E c \in Chains : SwitchChain(c)
  \/ \E c \in Chains : AddChain(c)
  \/ \E c \in Chains : AddNetwork(c)
  \/ RequestAnswer

NextBalance ==
  \/ GetBalance
  \/ BalanceAnswer

\* The refreshes of Provider State.
NextRefresh ==
  \/ ProviderInit
  \/ \E i \in RefreshIds : RefreshNetwork(i)
  \/ \E i \in RefreshIds : RefreshAccounts(i)

\* Provider State under wallet events.
SpecProvider == Init /\ [][NextProvider \/ NextSetup]_vars

\* Purchases while the wallet switches chains and the chain watcher runs.
SpecPurchase ==
  Init /\ [][NextRefresh \/ WalletChainChanged \/ NextSetup \/ NextPurchase]_vars

\* Requests to a wallet that has not granted an account yet; it answers them
\* and emits its events.
InitWallet == Init /\ hasDefaultProvider = TRUE /\ wAccount = ""

SpecRequest == InitWallet /\ [][NextRefresh \/ NextSetup \/ NextRequest]_vars

\* Reads and purchases through the marketplace accessor.
SpecMarket ==
  Init /\ [][NextRefresh \/ NextSetup \/ NextRead \/ NextPurchase]_vars

\* The operations of the provider wrapper side by side: the refreshes, the
\* accountsChanged and disconnect callbacks, addNetwork (whose granted
\* request makes the wallet emit chainChanged), getBalance and
\* signAndSendTransaction under a purchase, while the chain watcher loads the
\* network list.
NextWallet ==
  \/ NextRefresh
  \/ WalletAccountsChanged
  \/ WalletDisconnect
  \/ \E p \in IniProcs : IniLoaded(p)
  \/ \E c \in Chains : AddNetwork(c)
  \/ RequestAnswer
  \/ NextBalance
  \/ Mint("ERC20", FALSE)
  \/ TxSubmitted
  \/ TxConfirmed

SpecWallet == InitWallet /\ [][NextWallet]_vars

\* Overlapping refreshes whose queries the wallet answers at any moment
\* before the answer is delivered, and none of which fails: every awaited
\* query answers.
NextOverlap ==
  \/ ProviderInit
  \/ WalletChainChanged
  \/ WalletAccountsChanged
  \/ \E i \in RefreshIds : WalletServes(i)
  \/ \E i \in RefreshIds : RefreshNetwork(i) /\ refresh'[i] = "list"
  \/ \E i \in RefreshIds :
       RefreshAccounts(i) /\ selectedAddress' = AccountsAnswer(i)
  \/ NextSetup

SpecOverlap == Init /\ [][NextOverlap]_vars

\* The same refreshes when every answer is delivered as the wallet gives it.
NextInOrder ==
  \/ ProviderInit
  \/ WalletChainChanged
  \/ WalletAccountsChanged
  \/ \E i \in RefreshIds : RefreshNetwork(i) /\ refresh'[i] = "list"
  \/ \E i \in RefreshIds :
       RefreshAccounts(i) /\ selectedAddress' = AccountsAnswer(i)
  \/ NextSetup

SpecInOrder == Init /\ [][NextInOrder]_vars

\* Purchases on a wallet that connects.
SpecMint == Init /\ [][NextRefresh \/ NextSetup \/ NextPurchase]_vars

\* Token listing on a wallet that connects.
SpecList == Init /\ [][NextRefresh \/ NextSetup \/ NextList]_vars

\* Token listing and lookup of the tokens of collection K1 side by side, on
\* one deployment: a wallet with an account on chain 1 and a default provider.
InitTokens ==
  Init /\ hasDefaultProvider = TRUE /\ wChain = 1 /\ wAccount = "A"

SpecTokens ==
  InitTokens /\ [][NextRefresh \/ NextSetup \/ NextList \/ NextNftOf("K1")]_vars

\* Lookups of the tokens of collection K1 while the wallet switches chains,
\* until Provider State has moved to a second chain.
NextRebind ==
  \/ NextRefresh
  \/ (prevChain = 0 /\ WalletChainChanged)
  \/ NextSetup
  \/ NextNftOf("K1")

SpecRebind == InitTokens /\ [][NextRebind]_vars

\* Token lookup on a wallet that connects.
SpecNft == Init /\ [][NextRefresh \/ NextSetup \/ NextNft]_vars

\* Approvals on a wallet that connects and may disconnect.
SpecApprove ==
  Init /\ [][NextRefresh \/ WalletDisconnect \/ NextSetup \/ NextApprove]_vars

\* ------------------------------------------------------------ properties

\* The marketplace address a successful set-up for chain c binds, "none"
\* when the network list gives chain c no registry (not even the default).
BoundAddress(c) ==
  IF ResolveRegistry(netList, c) \in Registries
    THEN MarketOf[ResolveRegistry(netList, c)] ELSE "none"

PurchaseIssued == tx.pc = "idle" /\ tx'.pc = "send"
ReadIssued == list.pc = "init" /\ list'.pc = "tokens"

\* C1: every marketplace read and every purchase transaction is issued with
\* the marketplace address that the registry set-up bound for the chain id
\* Provider State holds at that moment; none is issued with an empty or
\* not-yet-initialised address.
C1_CallsOnlyAfterInit ==
  [][ /\ PurchaseIssued => (tx'.to # "" /\ tx'.to = BoundAddress(chainId))
      /\ ReadIssued => (lastRead' # "" /\ lastRead' = BoundAddress(chainId))
    ]_vars

\* C2: after Provider State moved from one chain to another, no purchase is
\* sent to the marketplace address bound for the previous chain.
C2_NoPurchaseOnPreviousBinding ==
  [][ (/\ PurchaseIssued
       /\ prevChain # 0
       /\ BoundAddress(prevChain) # BoundAddress(chainId))
        => tx'.to # BoundAddress(prevChain) ]_vars

\* C6: a refresh writes chainId and selectedAddress in one step: while it
\* still waits for listAccounts() it has written nothing, so a failure of
\* either query leaves both fields as they were.
C6_RefreshWritesTogether ==
  [][ \A i \in RefreshIds :
        (refresh[i] = "detect" /\ refresh'[i] = "list") => chainId' = chainId
    ]_vars

\* C3: an allowance read that is at least the requested amount ends the
\* invocation at once with true, and no approval has been requested since
\* that read.
C3_SufficientAllowanceReturnsTrue ==
  (ap.read >= 0 /\ ap.read >= ap.amount)
    => (ap.pc = "idle" /\ ap.res = "true" /\ ap.since = 0)

C3_Witness ==
  /\ ap.res = "true"
  /\ ap.amount > 0
  /\ ap.read >= ap.amount
  /\ ap.approvals = 0

\* C4: between an allowance read below the amount and the next allowance
\* read, exactly one approval is requested, for the requested amount and a
\* marketplace address as spender: while the approval is awaited it is the
\* one request since the read, and when the next read is requested there was
\* one request in between.
C4_OneApprovalPerLowRead ==
  /\ ap.since <= 1
  /\ ap.pc = "approve"
       => (ap.below /\ ap.since = 1
           /\ ap.approved[1] \in Markets /\ ap.approved[2] = ap.amount)
  /\ (ap.pc = "allow" /\ ap.below) => ap.gap = 1
  /\ (ap.pc = "allow" /\ ~ap.below) => ap.gap = 0

C4_Witness ==
  /\ ap.pc = "allow"
  /\ ap.below
  /\ ap.gap = 1
  /\ ap.approvals = 2

\* An approval transaction is what the running invocation left behind.
ApprovalReturned == ap.pc = "approve" /\ ap'.pc # "approve"
AllowanceRead == ap.pc = "allow" /\ ap' # ap
ApprovalOver == ap.pc \in {"allow", "approve"} /\ ap'.pc = "idle"

\* C5: the approval loop has no retry bound. With an address selected, the
\* return of an approval (effective or not) is always followed by another
\* allowance read, whatever the number of approvals before; a read below the
\* amount always requests another approval; and the loop is left only with
\* true on a read that is at least the amount, or with false when no address
\* is selected.
C5_NoRetryBound ==
  [][ /\ (ApprovalReturned /\ selectedAddress # "")
         => (ap'.pc = "allow" /\ ap'.res = "pending")
      /\ (AllowanceRead /\ ap'.below) => ap'.pc = "approve"
      /\ ApprovalOver
         => \/ ap'.res = "true" /\ ap'.read >= ap'.amount
            \/ ap'.res = "false" /\ selectedAddress = ""
    ]_vars

C5_Witness ==
  /\ ap.pc = "approve"
  /\ selectedAddress # ""
  /\ ap.approvals = MaxApprovals
  /\ ap.silent = MaxApprovals - 1

NftCalled == nft.pc = "idle" /\ nft' # nft

\* C7: getNft called while no address is selected or no chain id is held
\* rejects with 'Provider is not connected' before any call: no network list
\* load, no registry lookup, no accessor set-up, no tokenURI read, no
\* metadata fetch, no payment query.
C7_DisconnectedGetNftFails ==
  [][ (NftCalled /\ (selectedAddress = "" \/ chainId = 0))
        => /\ nft'.pc = "idle"
           /\ nft'.res = "Provider is not connected"
           /\ calls'["nft"] = {}
           /\ ini'["nft"] = IdleIni
           /\ UNCHANGED <<registryAddress, contractAddress, erc721Addr>>
    ]_vars

C7_Witness ==
  /\ nft.res = "Provider is not connected"
  /\ chainId # 0
  /\ selectedAddress = ""
  /\ calls["nft"] = {}

ListReturned == list.pc = "idle" /\ list.res = "ok"

EntriesFor(out, e) ==
  {n \in 1..Len(out) :
     /\ out[n].tokenContract = e.token.tokenContract
     /\ out[n].tokenId = e.token.tokenId}

FetchFailed(e) == ~(e.uri /\ e.meta)

\* C9: a tokenURI read or a metadata fetch that gives nothing makes
\* getNftList skip the token and go on (it gets no entry, every owned token
\* is still dealt with, and the listing does not reject for it), and makes
\* getNft reject with 'Failed to get tokenURI' / 'Failed to get metadata'
\* with no later call and no result.
C9_SkipInListFailInGetNft ==
  /\ \A k \in 1..Len(list.log) :
       FetchFailed(list.log[k]) => EntriesFor(list.out, list.log[k]) = {}
  /\ (ListReturned /\ list.owned >= 0) => Len(list.log) = list.owned
  /\ list.res \notin {"Failed to get tokenURI", "Failed to get metadata"}
  /\ nft.res = "Failed to get tokenURI"
       => (nft.pc = "idle" /\ calls["nft"] \cap {"metadata", "payment"} = {})
  /\ nft.res = "Failed to get metadata"
       => (nft.pc = "idle" /\ "tokenURI" \in calls["nft"]
           /\ "payment" \notin calls["nft"])
  /\ (nft.pc = "idle" /\ nft.res = "ok")
       => (nft.url # <<>> /\ nft.metadata # <<>>
           /\ {"tokenURI", "metadata", "payment"} \subseteq calls["nft"])

C9_Witness ==
  /\ ListReturned
  /\ Len(list.log) = 2
  /\ FetchFailed(list.log[1])
  /\ ~FetchFailed(list.log[2])
  /\ Len(list.out) = 1
  /\ nft.res = "Failed to get metadata"

\* The owned pairs of an answer of getUserTokens, in enumeration order.
RECURSIVE OwnedPairs(_)
OwnedPairs(raw) ==
  IF Len(raw) = 0 THEN <<>>
  ELSE [k \in 1..Len(Head(raw).tokenIds) |->
          [tokenContract |-> Head(raw).tokenContract,
           tokenId |-> Head(raw).tokenIds[k]]]
       \o OwnedPairs(Tail(raw))

\* The number a string of decimal digits denotes.
RECURSIVE DecValue(_)
DecValue(d) ==
  IF Len(d) = 0 THEN 0
  ELSE 10 * DecValue(SubSeq(d, 1, Len(d) - 1)) + d[Len(d)]

\* Token t (decimal id) is the owned pair p (BigNumber id).
SamePair(t, p) ==
  /\ t.tokenContract = p.tokenContract
  /\ \A i \in 1..Len(t.tokenId) : t.tokenId[i] \in 0..9
  /\ DecValue(t.tokenId) = HexValue(p.tokenId)

\* C10: the list returned has exactly one entry for each owned pair whose
\* tokenURI read and metadata fetch both succeeded and none for the others,
\* in the enumeration order of contracts and token ids, each with the
\* pair's contract and its id as a decimal string.
C10_ExactlyTheFetchedPairs ==
  (ListReturned /\ list.owned >= 0) =>
    LET pairs == OwnedPairs(list.raw)
        ok == {k \in 1..Len(list.log) : ~FetchFailed(list.log[k])}
    IN /\ Len(list.log) = Len(pairs)
       /\ \A k \in 1..Len(pairs) : SamePair(list.log[k].token, pairs[k])
       /\ Len(list.out) = Cardinality(ok)
       /\ \A k \in ok :
            SamePair(list.out[Cardinality({j \in ok : j <= k})], pairs[k])

C10_Witness ==
  /\ ListReturned
  /\ Len(list.raw) = 1
  /\ list.raw[1].tokenIds = <<<<1>>, <<1, 0>>>>
  /\ Len(list.log) = 2
  /\ ~FetchFailed(list.log[1])
  /\ list.log[2].uri /\ ~list.log[2].meta
  /\ Len(list.out) = 1
  /\ list.out[1].tokenId = <<1>>

TxReturned == tx.pc \in {"send", "wait"} /\ tx'.pc = "idle"

\* C11: signAndSendTransaction returns the transaction response only when
\* the confirmation wait has completed: an answer of sendTransaction() only
\* starts the wait; a failure of the submission or of the wait is routed to
\* the error handler once and the operation returns undefined.
C11_ResponseOnlyAfterWait ==
  [][ /\ (tx.pc = "send" /\ tx' # tx /\ ~TxReturned)
           => (tx'.pc = "wait" /\ tx'.res = "pending")
      /\ TxReturned
           => \/ /\ tx.pc = "wait"
                 /\ tx'.res = "response"
                 /\ tx'.routed = tx.routed
              \/ /\ tx'.res = "undefined"
                 /\ tx'.routed = tx.routed + 1
    ]_vars

C11_Witness ==
  /\ tx.pc = "idle"
  /\ tx.res = "response"
  /\ tx.routed = 0

\* C14: every purchase request is addressed to the marketplace accessor's
\* contract address as it is when the request is made; a value is attached
\* only by the ETH variant and only when an amount was supplied, and then it
\* is attached.
C14_PurchaseAddressAndValue ==
  [][ PurchaseIssued
        => /\ tx'.to = contractAddress
           /\ tx'.value => (tx'.kind = "ETH" /\ tx'.given)
           /\ (tx'.kind = "ETH" /\ tx'.given) => tx'.value
    ]_vars

C14_Witness ==
  /\ tx.pc = "send"
  /\ tx.kind = "ETH"
  /\ tx.value
  /\ tx.to \in Markets

MintCalled == tx.pc = "idle" /\ tx' # tx

\* C15: a mint without a chain id in Provider State calls no purchase
\* operation and sends nothing; with a chain id it calls the purchase
\* operation of its own kind, once.
C15_MintDelegatesOnce ==
  [][ MintCalled
        => IF chainId = 0
             THEN /\ tx'.pc = "idle"
                  /\ tx'.called = "none"
                  /\ tx'.res = "noop"
                  /\ tx'.to = ""
             ELSE /\ tx'.kind = "ETH" => tx'.called = "buyTokenWithETH"
                  /\ tx'.kind = "ERC20" => tx'.called = "buyTokenWithERC20"
                  /\ tx'.kind = "NFT" => tx'.called = "buyTokenWithNFT"
                  /\ tx'.kind \in TxKinds
                  /\ tx'.res \in {"pending", "undefined"}
    ]_vars

C15_Witness ==
  /\ chainId = 0
  /\ tx.res = "noop"
  /\ tx.called = "none"

RequestReturned == req.pc = "wait" /\ req'.pc = "idle"

\* C12: connect, switchChain and addChain never end with an exception. A
\* request the wallet refuses or fails is routed to the error handler once
\* and the operation returns; that step changes neither Provider State nor
\* the wallet, and starts no refresh. No step of these operations writes
\* chainId or selectedAddress.
C12_RequestsNeverThrow ==
  [][ /\ (req.pc = "idle" /\ req' # req)
           => /\ req'.res \in {"pending", "redirected", "returned"}
              /\ UNCHANGED <<chainId, selectedAddress>>
      /\ RequestReturned
           => /\ req'.res = "returned"
              /\ UNCHANGED <<chainId, selectedAddress>>
      /\ (RequestReturned /\ ~req'.ok)
           => /\ req'.routed = req.routed + 1
              /\ UNCHANGED <<wChain, wAccount, refresh>>
    ]_vars

C12_Witness ==
  /\ req.pc = "idle"
  /\ req.kind = "switchChain"
  /\ req.res = "returned"
  /\ ~req.ok
  /\ req.routed = 1
  /\ chainId # 0

ReadCalled == rd.pc = "idle" /\ rd' # rd
ReadReturned == rd.pc = "wait" /\ rd'.pc = "idle"

\* C13: a marketplace read on an accessor without a contract instance
\* returns undefined and calls nothing; a read whose contract call fails
\* routes the error and returns undefined; a purchase whose transaction
\* fails returns undefined. None of them ends with an exception.
C13_ReadsAndPurchasesReturnUndefined ==
  [][ /\ ReadCalled
           => IF contractAddress = ""
                THEN /\ rd'.pc = "idle"
                     /\ rd'.res = "undefined"
                     /\ ~rd'.issued
                     /\ UNCHANGED lastRead
                ELSE rd'.pc = "wait" /\ rd'.issued
      /\ ReadReturned
           => \/ rd'.res = "data" /\ rd'.routed = rd.routed
              \/ rd'.res = "undefined" /\ rd'.routed = rd.routed + 1
      /\ MintCalled => tx'.res \in {"noop", "pending", "undefined"}
      /\ TxReturned => tx'.res \in {"response", "undefined"}
    ]_vars

C13_Witness ==
  /\ rd.pc = "idle"
  /\ rd.kind = "getBooksBatch"
  /\ rd.issued
  /\ rd.res = "undefined"
  /\ rd.routed = 1
  /\ tx.res = "undefined"
  /\ tx.routed = 1

ApproveCalled == ap.pc = "idle" /\ ap' # ap

\* The calls approveTokenSpend may issue for a token type.
CallsAllowedFor(type) ==
  IF type \in {"erc20", "voucher"} THEN {"allowance", "approve"}
  ELSE IF type = "nft" THEN {"approve721"}
  ELSE {}

\* C16: approveTokenSpend called while the selected address or the
\* marketplace address is unset, or without the parameters its token type
\* requires, or for another token type, returns without any allowance read
\* or approval; otherwise it starts the allowance read for erc20 / voucher
\* and the ERC-721 approval for nft, and never issues a call of the other
\* kind.
C16_ApproveDispatch ==
  [][ /\ ApproveCalled
           => LET t == ap'.type
                  g == ap'.args
              IN IF \/ selectedAddress = "" \/ marketPlaceAddress = ""
                    \/ t \in {"erc20", "voucher"} /\ ~(g.address /\ g.amount)
                    \/ t = "nft" /\ ~(g.address /\ g.id)
                    \/ t \notin {"erc20", "voucher", "nft"}
                   THEN /\ ap'.pc = "idle"
                        /\ calls'["ap"] = {}
                        /\ UNCHANGED <<erc20Addr, erc721Addr, allowance>>
                 ELSE IF t = "nft"
                   THEN /\ ap'.pc = "approve721"
                        /\ calls'["ap"] = {"approve721"}
                        /\ UNCHANGED erc20Addr
                   ELSE /\ ap'.pc = "allow"
                        /\ calls'["ap"] = {"allowance"}
                        /\ UNCHANGED erc721Addr
      /\ calls'["ap"] \subseteq CallsAllowedFor(ap'.type)
    ]_vars

C16_Witness ==
  /\ ap.pc = "idle"
  /\ ap.res = "noop"
  /\ ap.type = "erc20"
  /\ ap.args.address
  /\ ~ap.args.amount
  /\ selectedAddress # ""
  /\ marketPlaceAddress # ""
  /\ calls["ap"] = {}

\* Run p of the set-up resolves its registry in this step, for chain
\* ResolvedChain(p): at its start when the network list is loaded already,
\* else when loadNetworks() answers.
Resolves(p) ==
  /\ ini[p].pc \in {"idle", "load"}
  /\ ini'[p] # ini[p]
  /\ ini'[p].pc # "load"
ResolvedChain(p) == IF ini[p].pc = "load" THEN ini[p].chain ELSE chainId'

\* The registry addresses the network list nets has for chain c.
RegistriesOf(nets, c) ==
  {n.factory_address : n \in {m \in nets : m.chain_id = c}} \ {""}

\* C17: the set-up takes the registry address the network list has for the
\* chain id; when the list has none it takes the one of the default chain;
\* when that is missing too it fails ('failed to get default registry
\* address' for an operation) and leaves the registry address as it was.
\* The marketplace lookup after it never fails the set-up: it ends normally
\* whether the registry answers or not, and without a registry instance it
\* ends without a call.
C17_RegistryResolution ==
  [][ \A p \in IniProcs :
        /\ Resolves(p)
             => LET own == RegistriesOf(netList', ResolvedChain(p))
                    def == RegistriesOf(netList', DEFAULT_CHAIN_ID)
                IN IF own # {}
                     THEN registryAddress' \in own /\ ini'[p].pc = "mp"
                   ELSE IF def # {}
                     THEN registryAddress' \in def /\ ini'[p].pc = "mp"
                     ELSE /\ registryAddress' = registryAddress
                          /\ ini'[p].pc = (IF p \in Watchers THEN "idle"
                                           ELSE "threw")
        /\ (ini[p].pc \in {"mp", "lookup"} /\ ini'[p] # ini[p])
             => /\ ini'[p].pc \in {"lookup", "done", "idle"}
                /\ registryAddress' = registryAddress
                /\ (/\ ini[p].pc = "mp"
                    /\ ~hasDefaultProvider
                    /\ (selectedAddress = "" \/ chainId = 0))
                     => (ini'[p].pc # "lookup" /\ UNCHANGED calls)
    ]_vars

\* The fallback happened: getNft on chain 2 with a list that has chain 1 only.
C17_Witness ==
  /\ ini["nft"].pc = "mp"
  /\ chainId = 2
  /\ RegistriesOf(netList, 2) = {}
  /\ registryAddress = "R1"

\* A step of the state refresh: one of the refreshes in flight moves on.
RefreshStep ==
  \E i \in RefreshIds : refresh[i] # "idle" /\ refresh'[i] # refresh[i]

\* A step of the disconnect callback: only the selected address is cleared.
DisconnectStep ==
  /\ selectedAddress # ""
  /\ selectedAddress' = ""
  /\ UNCHANGED <<chainId, refresh, req, bal, tx>>

\* C18: isConnected holds exactly when chainId and selectedAddress are both
\* set, and the two fields are written only by a step of the state refresh
\* (which the accountsChanged and chainChanged callbacks start) or by the
\* disconnect callback: no step of signAndSendTransaction, getBalance or
\* addNetwork changes either of them.
C18_ProviderStateWriters ==
  [][ /\ isConnected <=> (chainId # 0 /\ selectedAddress # "")
      /\ isConnected' <=> (chainId' # 0 /\ selectedAddress' # "")
      /\ (chainId' # chainId \/ selectedAddress' # selectedAddress)
           => (RefreshStep \/ DisconnectStep)
      /\ (tx' # tx \/ bal' # bal \/ req' # req)
           => UNCHANGED <<chainId, selectedAddress>> ]_vars

\* addNetwork was granted by the wallet, a transaction was confirmed and a
\* balance was read, on a connected provider whose chain has changed.
C18_Witness ==
  /\ isConnected
  /\ prevChain # 0
  /\ req.pc = "idle" /\ req.kind = "addNetwork" /\ req.ok
  /\ tx.pc = "idle" /\ tx.res = "response"
  /\ bal.pc = "idle" /\ bal.res = "balance"

\* C19: a mint called after Provider State moved to another chain, while the
\* marketplace accessor still holds the address resolved for the previous
\* chain, is not held back: the purchase is sent at once, addressed to that
\* previous address, with Provider State already on the new chain.
C19_StalePurchaseIsSent ==
  [][ (/\ tx.pc = "idle" /\ tx' # tx
       /\ prevChain # 0
       /\ contractAddress \in Markets
       /\ contractAddress = BoundAddress(prevChain)
       /\ contractAddress # BoundAddress(chainId))
        => (/\ tx'.pc = "send"
            /\ tx'.to = BoundAddress(prevChain)
            /\ tx'.chainAt = chainId
            /\ tx'.to # BoundAddress(tx'.chainAt)) ]_vars

\* The wallet changed chain, the watcher's set-up for the new chain is still
\* in flight, and a purchase has been sent to the previous chain's
\* marketplace.
C19_Witness ==
  /\ tx.pc = "send"
  /\ prevChain # 0
  /\ tx.chainAt = chainId
  /\ tx.chainAt # prevChain
  /\ tx.to \in Markets
  /\ tx.to = BoundAddress(prevChain)
  /\ tx.to # BoundAddress(tx.chainAt)
  /\ \E w \in Watchers : ini[w].pc # "idle" /\ ini[w].chain = chainId

\* A set-up run p ends its marketplace lookup in this step.
LookupEnds(p) == ini[p].pc = "lookup" /\ ini'[p].pc # "lookup"

\* C20: the spender of allowance reads and approvals (marketPlaceAddress)
\* and the target of purchases (the accessor's contractAddress) are equal
\* before and after every step. Either changes only in the step in which a
\* run's registry lookup is answered, and then both become the marketplace
\* of the registry that was asked; the step that calls the lookup, or gives
\* it up for want of a registry instance, changes neither, and a lookup may
\* end with both unchanged.
C20_SpenderIsPurchaseTarget ==
  [][ /\ marketPlaceAddress = contractAddress
      /\ marketPlaceAddress' = contractAddress'
      /\ (marketPlaceAddress' # marketPlaceAddress
             \/ contractAddress' # contractAddress)
           => \E p \in IniProcs :
                /\ LookupEnds(p)
                /\ marketPlaceAddress' = MarketOf[ini[p].reg]
                /\ contractAddress' = MarketOf[ini[p].reg]
      /\ \A p \in IniProcs :
           (ini[p].pc = "mp" /\ ini'[p] # ini[p])
             => UNCHANGED <<marketPlaceAddress, contractAddress>> ]_vars

\* Provider State moved from one chain to another with a marketplace of its
\* own, every set-up run is over and getNft has returned, and both fields
\* still hold the marketplace bound for the previous chain.
C20_Witness ==
  /\ prevChain # 0
  /\ marketPlaceAddress \in Markets
  /\ contractAddress = marketPlaceAddress
  /\ marketPlaceAddress = BoundAddress(prevChain)
  /\ BoundAddress(chainId) \in Markets \ {marketPlaceAddress}
  /\ \A p \in IniProcs : ini[p].pc = "idle"
  /\ nft.pc = "idle" /\ nft.res = "ok"
  /\ "registry" \in calls["nft"]

\* Every refresh that was started is over.
RefreshesOver == inited /\ \A i \in RefreshIds : refresh[i] = "idle"

\* C21: when every refresh has completed, none having failed, chainId and
\* selectedAddress are the wallet's present network and first account,
\* whatever the order in which the answers of overlapping refreshes came in.
C21_RefreshesConverge ==
  RefreshesOver => (chainId = wChain /\ selectedAddress = wAccount)

\* C22: every entry getNftList has collected carries the metadata document
\* behind the tokenURI of its own (tokenContract, tokenId) pair, also while
\* getNft runs alongside and re-initialises the shared ERC-721 accessor.
C22_EntryMetadataOfOwnToken ==
  \A n \in 1..Len(list.out) :
    list.out[n].metadata =
      MetadataAt(TokenUriOf(list.out[n].tokenContract, list.out[n].tokenId))

\* _isErc20TokenApproved returns in this step.
CheckReturns == ap.pc \in {"allow", "approve"} /\ ap'.pc = "idle"

\* true is returned only on the answer of an allowance read that is at least
\* the amount, no approval being requested after that read.
TrueOnlyOnSufficientRead ==
  (CheckReturns /\ ap'.res = "true")
    => (ap.pc = "allow" /\ ap'.read >= ap'.amount /\ ap'.since = 0)

\* false is returned only by a round that starts with no address selected,
\* and that round requests no allowance read and no approval.
FalseOnlyWithoutAddress ==
  (CheckReturns /\ ap'.res = "false")
    => (/\ selectedAddress = ""
        /\ calls' = calls
        /\ ap'.approvals = ap.approvals
        /\ ap'.read = ap.read)

\* C23 as stated: true only after a sufficient read, false only without a
\* selected address, and once an approval has been requested a loop that
\* ends while the selected address is cleared ends with false.
C23_DisconnectEndsWithFalse ==
  [][ /\ TrueOnlyOnSufficientRead
      /\ FalseOnlyWithoutAddress
      /\ (CheckReturns /\ ap.approvals >= 1 /\ selectedAddress = "")
           => ap'.res = "false" ]_vars

\* C23: true only after a sufficient read, false only without a selected
\* address. A round that starts after the selected address was cleared (the
\* recheck after an approval has returned) returns false; a round whose
\* allowance read is in flight when the address is cleared goes on, returning
\* true on a sufficient read and requesting an approval otherwise.
C23_NextRoundEndsWithFalse ==
  [][ /\ TrueOnlyOnSufficientRead
      /\ FalseOnlyWithoutAddress
      /\ (ap.pc = "approve" /\ ap' # ap /\ selectedAddress = "")
           => (ap'.pc = "idle" /\ ap'.res = "false")
      /\ (ap.pc = "allow" /\ ap' # ap /\ selectedAddress = "")
           => \/ (ap'.pc = "idle" /\ ap'.res = "true"
                    /\ ap'.read >= ap'.amount)
              \/ (ap'.pc = "approve" /\ ap'.read < ap'.amount
                    /\ ap'.approvals = ap.approvals + 1) ]_vars

\* An approval was requested, the selected address was cleared, and the
\* recheck returned false.
C23_Witness ==
  /\ ap.pc = "idle"
  /\ ap.res = "false"
  /\ ap.approvals >= 1
  /\ ap.read < ap.amount
  /\ selectedAddress = ""

====
